---- MODULE Spec2Model ----
(***************************************************************************)
(* MQTT to Telegram bridge (src/mqtt_telegram.py).                         *)
(*                                                                         *)
(* The process has one thread.  It verifies the Telegram bot, creates the  *)
(* MQTT client and then sits in client.loop_forever(), which runs the      *)
(* callbacks on_connect, on_disconnect and on_message on that same thread. *)
(* pc is the position of that thread.  Texts are TLA+ strings; the emoji   *)
(* of the source's literals are written as [bust], [globe], [flag],        *)
(* [office] and [dish].                                                    *)
(***************************************************************************)
EXTENDS Integers, Sequences, FiniteSets, TLC

VARIABLES
    pc,               \* position of the (only) thread
    getMeOK,          \* bot.get_me() has returned (line 195)
    startupSent,      \* the startup announcement was sent (line 199)
    clientCreated,    \* mqtt.Client(...) exists (line 211)
    connected,        \* client.is_connected()
    connackPending,   \* CONNECT is out, the CONNACK is not yet processed
    connackRc,        \* reason_code of the latest on_connect, -1 before any
    subscribed,       \* the subscribe calls of the latest on_connect
    nConnOK,          \* on_connect calls with reason_code 0 so far
    nSubs,            \* client.subscribe calls so far
    lastCall,         \* the latest call made on the client object
    discRc,           \* reason_code of the latest on_disconnect, -1 before any
    reconnectOK,      \* a client.reconnect() of the running on_disconnect returned
    interruptedAt,    \* the position at which KeyboardInterrupt was raised, "" if none
    disconnectCalled, \* client.disconnect() was called (line 230)
    exitCause,        \* why the process left its code: "", exception class
    msgNo,            \* number of broker messages handed to on_message
    message_text,     \* the local variable of on_message: [text, from]
    om                \* the running or latest on_message call

vars == <<pc, getMeOK, startupSent, clientCreated, connected, connackPending,
          connackRc, subscribed, nConnOK, nSubs, lastCall, discRc, reconnectOK,
          interruptedAt, disconnectCalled, exitCause, msgNo, message_text, om>>

startupVars == <<getMeOK, startupSent, clientCreated>>
linkVars == <<connected, connackPending, connackRc, subscribed, nConnOK, nSubs,
              discRc, reconnectOK>>
msgVars == <<msgNo, message_text, om>>

-----------------------------------------------------------------------------
(* Bounds of the model *)

\* broker messages handed to on_message in one run
MaxMsgs == 2
\* CONNACKs processed in one run
MaxConnAcks == 2

-----------------------------------------------------------------------------
(* Configuration and literals *)

ClientTopic == "OpenwebRX/CLIENT"
TelemetryTopic == "OpenwebRX/RX"
OtherTopic == "sensors/temp"

\* config.MQTT_TOPICS: the configured topic filters
MQTT_TOPICS == <<ClientTopic, TelemetryTopic, OtherTopic>>

SubscribeQos == 1

HzPerMHz == 1000000

FreqDecimals == 6

\* the classes of exception the calls of the program raise; all of them are
\* subclasses of Exception.  KeyboardInterrupt is not: see Interrupt.
ExceptionClasses ==
    {"UnicodeDecodeError", "JSONDecodeError", "AttributeError", "TypeError",
     "ValueError", "UnboundLocalError", "KeyError", "TelegramError",
     "ClientError", "OSError"}

-----------------------------------------------------------------------------
(* Strings *)

Char(s, i) == SubSeq(s, i, i)

\* needle in s
Contains(s, needle) ==
    \E i \in 1..(Len(s) - Len(needle) + 1) :
        SubSeq(s, i, i + Len(needle) - 1) = needle

\* s.split(":")[-1]: what follows the last colon, all of s without a colon
AfterLastColon(s) ==
    LET colons == {i \in 1..Len(s) : Char(s, i) = ":"}
    IN  IF colons = {} THEN s
        ELSE LET last == CHOOSE i \in colons : \A j \in colons : j <= i
             IN  SubSeq(s, last + 1, Len(s))

Digits == <<"0", "1", "2", "3", "4", "5", "6", "7", "8", "9">>

IsDigit(c) == \E d \in 1..10 : Digits[d] = c

DigitValue(c) == (CHOOSE d \in 1..10 : Digits[d] = c) - 1

\* float(s) accepts s: a non-empty run of decimal digits (the numeric texts
\* of this model carry no sign, point or exponent)
IsNumericText(s) == Len(s) > 0 /\ \A i \in 1..Len(s) : IsDigit(Char(s, i))

RECURSIVE TextToNat(_)
TextToNat(s) ==
    IF Len(s) = 0 THEN 0
    ELSE TextToNat(SubSeq(s, 1, Len(s) - 1)) * 10 + DigitValue(Char(s, Len(s)))

RECURSIVE ZeroPad(_, _)
ZeroPad(s, width) == IF Len(s) >= width THEN s ELSE ZeroPad("0" \o s, width)

\* variant: the fraction without its leading zeros
FormatMHzUnpadded(hz) ==
    ToString(hz \div HzPerMHz) \o "." \o ToString(hz % HzPerMHz)

\* f"{hz / 1_000_000:.6f}" for a whole number of Hz
FormatMHz(hz) ==
    ToString(hz \div HzPerMHz) \o "." \o ZeroPad(ToString(hz % HzPerMHz), FreqDecimals)

-----------------------------------------------------------------------------
(* Broker messages: message.topic and message.payload *)

\* JSON values as json.loads returns them
JStr(s) == [t |-> "str", s |-> s, n |-> 0, items |-> <<>>]
JInt(n) == [t |-> "int", s |-> "", n |-> n, items |-> <<>>]
JDict(items) == [t |-> "dict", s |-> "", n |-> 0, items |-> items]
JList(items) == [t |-> "list", s |-> "", n |-> 0, items |-> items]
JNone == [t |-> "none", s |-> "", n |-> 0, items |-> <<>>]
KV(k, v) == [k |-> k, v |-> v]

\* payload bytes that are not UTF-8: payload.decode() raises
BadBytes == [utf8 |-> FALSE, text |-> "", json |-> FALSE, val |-> JNone]
\* text that json.loads rejects
PlainText(text) == [utf8 |-> TRUE, text |-> text, json |-> FALSE, val |-> JNone]
\* text that json.loads parses to val
JsonText(text, val) == [utf8 |-> TRUE, text |-> text, json |-> TRUE, val |-> val]

ClientPayload(mode, state, ip) ==
    JsonText("{\"mode\": \"" \o mode \o "\", \"state\": \"" \o state
                 \o "\", \"ip\": \"" \o ip \o "\"}",
             JDict(<<KV("mode", JStr(mode)), KV("state", JStr(state)),
                     KV("ip", JStr(ip))>>))

Payloads ==
    { BadBytes,
      PlainText("hello {"),
      ClientPayload("CLIENT", "Connected", "::ffff:10.0.0.5"),
      ClientPayload("CLIENT", "Connected", "192.0.2.1"),
      ClientPayload("CLIENT", "Disconnected", "::ffff:10.0.0.5"),
      ClientPayload("CLIENT", "Disconnected", "2001:db8::7"),
      ClientPayload("CLIENT", "Idle", "192.0.2.1"),
      ClientPayload("RX", "Disconnected", "192.0.2.1"),
      JsonText("{\"mode\": \"CLIENT\", \"state\": \"Connected\", \"ip\": 7}",
               JDict(<<KV("mode", JStr("CLIENT")), KV("state", JStr("Connected")),
                       KV("ip", JInt(7))>>)),
      JsonText("{\"mode\": \"CLIENT\", \"state\": \"Disconnected\"}",
               JDict(<<KV("mode", JStr("CLIENT")),
                       KV("state", JStr("Disconnected"))>>)),
      JsonText("{\"freq\": 145000000, \"mode\": \"FM\"}",
               JDict(<<KV("freq", JInt(145000000)), KV("mode", JStr("FM"))>>)),
      JsonText("{\"mode\": \"FM\", \"freq\": \"433920000\"}",
               JDict(<<KV("mode", JStr("FM")), KV("freq", JStr("433920000"))>>)),
      JsonText("{\"freq\": \"n/a\"}", JDict(<<KV("freq", JStr("n/a"))>>)),
      JsonText("[1, 2]", JList(<<JInt(1), JInt(2)>>)),
      JsonText("42", JInt(42)) }

Messages == [topic : {ClientTopic, TelemetryTopic, OtherTopic}, payload : Payloads]

-----------------------------------------------------------------------------
(* The formatting of on_message, lines 100-172 *)

\* payload.get(key, default) of a dict: the value of the last item with key
DictGet(d, key, default) ==
    LET hits == {i \in 1..Len(d.items) : d.items[i].k = key}
    IN  IF hits = {} THEN default
        ELSE d.items[CHOOSE i \in hits : \A j \in hits : j <= i].v

\* f"{value}" of a JSON scalar
Render(v) ==
    CASE v.t = "str" -> v.s
      [] v.t = "int" -> ToString(v.n)
      [] OTHER -> "None"

\* variant: the ip without the rule of line 114
KeepRawIp(raw_ip) == raw_ip

\* lines 113-114 on a str
NormalizeIp(raw_ip) ==
    IF Contains(raw_ip, "::ffff:") THEN AfterLastColon(raw_ip) ELSE raw_ip

\* line 117
ConnectedHeader(ip) == "[bust] Cliente Conectado\n[globe] IP: " \o ip

\* lines 125-131
ConnectedEnriched(ip, country, city, isp) ==
    "[bust] Cliente Conectado\n" \o "[globe] IP: " \o ip \o "\n"
        \o "[flag] País: " \o country \o "\n"
        \o "[office] Ciudad: " \o city \o "\n"
        \o "[dish] ISP: " \o isp

\* lines 133-137
ConnectedNoInfo(ip) ==
    "[bust] Cliente Conectado\n" \o "[globe] IP: " \o ip \o "\n"
        \o "No se pudo obtener información adicional de la IP"

\* line 146
DisconnectedText(ip) == "[bust] Cliente Desconectado\n[globe] IP: " \o ip

\* lines 155, 168, 171
RawFallback(topic, decoded_payload) ==
    "Topic: " \o topic \o "\nMessage: " \o decoded_payload

\* "\n".join(parts)
RECURSIVE JoinLines(_)
JoinLines(parts) ==
    IF Len(parts) = 0 THEN ""
    ELSE IF Len(parts) = 1 THEN parts[1]
    ELSE parts[1] \o "\n" \o JoinLines(Tail(parts))

\* float(value) raises for this value (line 162)
FloatRaises(v) ==
    CASE v.t = "int" -> FALSE
      [] v.t = "str" -> ~IsNumericText(v.s)
      [] OTHER -> TRUE

FloatError(v) == IF v.t = "str" THEN "ValueError" ELSE "TypeError"

\* float(value) as a whole number of Hz
FloatHz(v) == IF v.t = "int" THEN v.n ELSE TextToNat(v.s)

\* lines 161-165: the line of one item on the telemetry topic
TelemetryLine(item) ==
    IF item.k = "freq"
    THEN item.k \o ": " \o FormatMHz(FloatHz(item.v)) \o " MHz"
    ELSE item.k \o ": " \o Render(item.v)

\* results of the part of on_message that runs before its first await
Raise(exc) == [kind |-> "raise", exc |-> exc, bound |-> FALSE, text |-> "", ip |-> ""]
ToLookup(text, ip) == [kind |-> "lookup", exc |-> "", bound |-> TRUE, text |-> text, ip |-> ip]
ToSend(text) == [kind |-> "send", exc |-> "", bound |-> TRUE, text |-> text, ip |-> ""]
ToSendUnbound == [kind |-> "send", exc |-> "", bound |-> FALSE, text |-> "", ip |-> ""]

\* variant: line 170 as except Exception
InnerCatchesAll(exc) == TRUE

\* line 170: the inner handler catches json.JSONDecodeError only
InnerCatches(exc) == exc = "JSONDecodeError"

\* variant: line 116 as payload.get("state") != "Disconnected"
ConnectedUnlessDisconnected(state) == state # JStr("Disconnected")

\* line 116: the state that takes the branch with the enrichment lookup
IsConnectedState(state) == state = JStr("Connected")

\* lines 151-152: the line of one item, without a rule for freq
PlainLine(item) == item.k \o ": " \o Render(item.v)

\* variant: lines 148-156 with the per-key lines for every topic
NonClientModePerKey(topic, decoded_payload, payload) ==
    ToSend(JoinLines([i \in 1..Len(payload.items) |-> PlainLine(payload.items[i])]))

\* lines 148-156: a dict on the client topic whose mode is not "CLIENT".
\* Line 149 compares the topic, which is the client topic here, with the
\* telemetry topic.
NonClientMode(topic, decoded_payload, payload) ==
    IF topic = TelemetryTopic
    THEN ToSend(JoinLines([i \in 1..Len(payload.items) |->
                              PlainLine(payload.items[i])]))
    ELSE ToSend(RawFallback(topic, decoded_payload))

\* lines 110-156: a parsed payload on the client topic
FormatClient(topic, decoded_payload, payload) ==
    IF payload.t # "dict" THEN Raise("AttributeError")
    ELSE IF DictGet(payload, "mode", JNone) = JStr("CLIENT")
    THEN LET raw_ip == DictGet(payload, "ip", JStr(""))
             state == DictGet(payload, "state", JNone)
         IN  IF raw_ip.t # "str" THEN Raise("TypeError")
             ELSE LET ip == NormalizeIp(raw_ip.s)
                  IN  IF IsConnectedState(state)
                      THEN ToLookup(ConnectedHeader(ip), ip)
                      ELSE IF state = JStr("Disconnected")
                      THEN ToSend(DisconnectedText(ip))
                      ELSE ToSendUnbound
    ELSE NonClientMode(topic, decoded_payload, payload)

\* lines 158-168: a parsed payload on any other topic
FormatOther(topic, decoded_payload, payload) ==
    IF topic = TelemetryTopic
    THEN IF payload.t # "dict" THEN Raise("AttributeError")
         ELSE LET bad == {i \in 1..Len(payload.items) :
                             payload.items[i].k = "freq"
                             /\ FloatRaises(payload.items[i].v)}
              IN  IF bad # {}
                  THEN Raise(FloatError(
                           payload.items[CHOOSE i \in bad : \A j \in bad : i <= j].v))
                  ELSE ToSend(JoinLines([i \in 1..Len(payload.items) |->
                                            TelemetryLine(payload.items[i])]))
    ELSE ToSend(RawFallback(topic, decoded_payload))

\* lines 100-172: on_message up to its first await
Prepare(message) ==
    IF ~message.payload.utf8 THEN Raise("UnicodeDecodeError")
    ELSE LET decoded_payload == message.payload.text
         IN  IF ~message.payload.json
             THEN IF InnerCatches("JSONDecodeError")
                  THEN ToSend(RawFallback(message.topic, decoded_payload))
                  ELSE Raise("JSONDecodeError")
             ELSE LET r == IF message.topic = ClientTopic
                           THEN FormatClient(message.topic, decoded_payload,
                                             message.payload.val)
                           ELSE FormatOther(message.topic, decoded_payload,
                                            message.payload.val)
                  IN  IF r.kind = "raise" /\ InnerCatches(r.exc)
                      THEN ToSend(RawFallback(message.topic, decoded_payload))
                      ELSE r

-----------------------------------------------------------------------------
(* The enrichment lookup, lines 51-63 and 121-138 *)

GeoData(items) == [kind |-> "json", exc |-> "", data |-> JDict(items)]
GeoRaises(exc) == [kind |-> "raise", exc |-> exc, data |-> JNone]

\* what session.get and response.json() do for one lookup
LookupResponses ==
    { GeoData(<<KV("status", JStr("success")), KV("country", JStr("Testland")),
                KV("city", JStr("Test City")), KV("isp", JStr("TestISP"))>>),
      GeoData(<<KV("status", JStr("success")), KV("country", JStr("Testland"))>>),
      GeoData(<<KV("status", JStr("fail"))>>),
      GeoData(<<KV("country", JStr("Testland"))>>),
      [kind |-> "json", exc |-> "", data |-> JList(<<>>)],
      GeoRaises("ClientError"),
      GeoRaises("ValueError") }

\* variant: get_ip_info without its try/except
GetIpInfoCatchesNothing(exc) == FALSE

\* line 61: except Exception
GetIpInfoCatches(exc) == exc \in ExceptionClasses

Returned(info) == [raised |-> FALSE, exc |-> "", info |-> info]
Raised(exc) == [raised |-> TRUE, exc |-> exc, info |-> JNone]

\* lines 53-60: the body of the try of get_ip_info
GetIpInfoBody(response) ==
    IF response.kind = "raise" THEN Raised(response.exc)
    ELSE IF response.data.t # "dict" THEN Raised("TypeError")
    ELSE IF DictGet(response.data, "status", JNone) = JNone THEN Raised("KeyError")
    ELSE IF DictGet(response.data, "status", JNone) = JStr("success")
    THEN Returned(response.data)
    ELSE Returned(JNone)

\* get_ip_info(ip): the data, None, or an exception that leaves it
GetIpInfo(response) ==
    LET r == GetIpInfoBody(response)
    IN  IF r.raised /\ GetIpInfoCatches(r.exc) THEN Returned(JNone) ELSE r

\* variant: the text of line 117 is what process_ip_info returns
ProcessIpInfoHeaderOnly(ip, ip_info) ==
    "[bust] Cliente Conectado\n[globe] IP: " \o ip

\* lines 124-138: process_ip_info once get_ip_info has returned ip_info
ProcessIpInfo(ip, ip_info) ==
    IF ip_info # JNone
    THEN ConnectedEnriched(ip,
                           Render(DictGet(ip_info, "country", JStr("N/A"))),
                           Render(DictGet(ip_info, "city", JStr("N/A"))),
                           Render(DictGet(ip_info, "isp", JStr("N/A"))))
    ELSE ConnectedNoInfo(ip)

-----------------------------------------------------------------------------
(* Exception handlers *)

\* variant: send_telegram_message without its try/except
SendCatchesNothing(exc) == FALSE

\* line 92: except Exception in send_telegram_message
SendCatches(exc) == exc \in ExceptionClasses

\* variant: on_message with except ValueError in place of except Exception
OuterCatchesValueError(exc) ==
    exc \in {"ValueError", "JSONDecodeError", "UnicodeDecodeError"}

\* line 181: except Exception in on_message
OuterCatches(exc) == exc \in ExceptionClasses

\* line 47: except Exception in on_disconnect
ReconnectCatches(exc) == exc \in ExceptionClasses

\* variant: the process loop with except OSError in place of except Exception
MainCatchesOSError(exc) == exc = "OSError"

\* line 232: except Exception around connect and loop_forever
MainCatches(exc) == exc \in ExceptionClasses

\* variant: verify_bot_connection without the raise of line 203
VerifySwallowsTelegramError(exc) == exc # "TelegramError"

\* lines 201-203: verify_bot_connection logs a TelegramError and raises it
\* again; it catches no other class
VerifyPropagates(exc) == TRUE

\* variant: on_disconnect without the test of line 41
ReconnectAlways(reason_code) == TRUE

\* line 41: on_disconnect reconnects after a non-zero reason code
ShouldReconnect(reason_code) == reason_code # 0

\* variant: on_connect without the test of line 29
SubscribeAlways(reason_code) == TRUE

\* line 29: on_connect subscribes after reason code 0
ShouldSubscribe(reason_code) == reason_code = 0

\* lines 223-227: the positions inside the try of the process loop, where
\* line 228 catches a KeyboardInterrupt.  The callbacks run inside
\* loop_forever, so their positions are among them.
InTryBlock(p) ==
    p \in {"connect", "loop", "om_lookup", "om_send",
           "rc_check", "rc_reconnect", "rc_sleep2", "rc_sleep5"}

\* line 231: break after client.disconnect()
AfterShutdown == "done"

\* variant: the coroutine is scheduled and on_message returns at once
FireAndForget(position) == "loop"

\* lines 143 and 178: loop.run_until_complete(...) keeps the thread at the
\* await until the coroutine has ended
RunUntilComplete(position) == position

\* a local variable that no statement has assigned
Unbound == [bound |-> FALSE, text |-> "", from |-> 0]

\* variant: message_text as a module-level variable, kept between calls
StaleText(old) == old

\* a call of on_message starts with message_text unbound (a local variable)
EntryText(old) == Unbound

-----------------------------------------------------------------------------
(* The process *)

NoMessage == [topic |-> "", payload |-> BadBytes]

NoResponse == [kind |-> "none", exc |-> "", data |-> JNone]

\* lines 141-144: the loop of line 141 is closed at line 144, which an
\* exception of run_until_complete skips
LoopsLeftByLookup(raised) == IF raised THEN 1 ELSE 0

\* lines 76 and 91: send_telegram_message creates a loop of its own and
\* closes it after bot.send_message returned; the except of line 92 does not
SendLoopClosed(outcome) == outcome = "ok"

\* lines 175-180 and 76-91: the loop of line 175 is closed by the finally of
\* line 180, the loop of line 76 at line 91
LoopsLeftBySend(outcome) == IF SendLoopClosed(outcome) THEN 0 ELSE 1

\* om: the call of on_message that runs or ran last.
\*   n         its number in the broker's order, 0 before the first
\*   stage     "none", "lookup", "send", "returned", "escaped"
\*   ip        the local variable ip
\*   lookups   calls of get_ip_info
\*   attempts  calls of bot.send_message
\*   sent      the text of the latest attempt, sentFrom the call that built it
\*   sendExc   the exception of the latest attempt, "" when it succeeded
\*   sendCaught  that exception was caught in send_telegram_message
\*   dropped   the exception the handler of line 181 caught, "" when none
\*   prev      how the call before this one ended
\*   response  what the lookup service did for the call's get_ip_info
\*   openLoops event loops the call created and has not closed
NoCall ==
    [n |-> 0, msg |-> NoMessage, stage |-> "none", ip |-> "", lookups |-> 0,
     attempts |-> 0, sent |-> "", sentFrom |-> 0, sendExc |-> "",
     sendCaught |-> FALSE, dropped |-> "", prev |-> "none",
     response |-> NoResponse, openLoops |-> 0]

\* how a finished call ended
Ending(call) ==
    IF call.stage = "none" THEN "none"
    ELSE IF call.dropped # "" THEN "dropped"
    ELSE IF call.sendExc # "" THEN "send_failed"
    ELSE "delivered"

Init ==
    /\ pc = "verify_getme"
    /\ getMeOK = FALSE
    /\ startupSent = FALSE
    /\ clientCreated = FALSE
    /\ connected = FALSE
    /\ connackPending = FALSE
    /\ connackRc = -1
    /\ subscribed = <<>>
    /\ nConnOK = 0
    /\ nSubs = 0
    /\ lastCall = "none"
    /\ discRc = -1
    /\ reconnectOK = FALSE
    /\ interruptedAt = ""
    /\ disconnectCalled = FALSE
    /\ exitCause = ""
    /\ msgNo = 0
    /\ message_text = Unbound
    /\ om = NoCall

\* line 236: an exception that reaches the outermost handler ends the process
Fatal(exc) ==
    /\ pc' = "fatal"
    /\ exitCause' = exc

\* lines 232-234: an exception that leaves client.connect or loop_forever
MainRaise(exc) ==
    IF MainCatches(exc)
    THEN pc' = "retry_sleep" /\ UNCHANGED exitCause
    ELSE Fatal(exc)

\* lines 195-196 (and 190-191): bot.get_me()
GetMe ==
    /\ pc = "verify_getme"
    /\ \E outcome \in {"ok", "TelegramError", "OSError"} :
          IF outcome = "ok"
          THEN getMeOK' = TRUE /\ pc' = "verify_send" /\ UNCHANGED exitCause
          ELSE /\ UNCHANGED getMeOK
               /\ IF VerifyPropagates(outcome) THEN Fatal(outcome)
                  ELSE pc' = "create_client" /\ UNCHANGED exitCause
    /\ UNCHANGED <<startupSent, clientCreated, linkVars, lastCall, interruptedAt,
                   disconnectCalled, msgVars>>

\* lines 199-200: the startup announcement
StartupSend ==
    /\ pc = "verify_send"
    /\ \E outcome \in {"ok", "TelegramError", "OSError"} :
          IF outcome = "ok"
          THEN startupSent' = TRUE /\ pc' = "create_client" /\ UNCHANGED exitCause
          ELSE /\ UNCHANGED startupSent
               /\ IF VerifyPropagates(outcome) THEN Fatal(outcome)
                  ELSE pc' = "create_client" /\ UNCHANGED exitCause
    /\ UNCHANGED <<getMeOK, clientCreated, linkVars, lastCall, interruptedAt,
                   disconnectCalled, msgVars>>

\* lines 211-212: mqtt.Client(...)
CreateClient ==
    /\ pc = "create_client"
    /\ clientCreated' = TRUE
    /\ pc' = "setup"
    /\ UNCHANGED <<getMeOK, startupSent, linkVars, lastCall, interruptedAt,
                   disconnectCalled, exitCause, msgVars>>

\* lines 214-220: credentials, callbacks, logger
Setup ==
    /\ pc = "setup"
    /\ pc' = "connect"
    /\ UNCHANGED <<startupVars, linkVars, lastCall, interruptedAt,
                   disconnectCalled, exitCause, msgVars>>

\* line 225: client.connect(...); it returns once CONNECT is sent, or raises
Connect ==
    /\ pc = "connect"
    /\ lastCall' = "connect"
    /\ connected' = FALSE
    /\ \E outcome \in {"ok", "OSError", "ValueError"} :
          IF outcome = "ok"
          THEN connackPending' = TRUE /\ pc' = "loop" /\ UNCHANGED exitCause
          ELSE connackPending' = FALSE /\ MainRaise(outcome)
    /\ UNCHANGED <<startupVars, connackRc, subscribed, nConnOK, nSubs, discRc,
                   reconnectOK, interruptedAt, disconnectCalled, msgVars>>

\* line 234: time.sleep(5), then the while of line 222 goes round
RetrySleep ==
    /\ pc = "retry_sleep"
    /\ pc' = "connect"
    /\ UNCHANGED <<startupVars, linkVars, lastCall, interruptedAt,
                   disconnectCalled, exitCause, msgVars>>

\* line 227: loop_forever raises (a socket error, a protocol error)
LoopRaises ==
    /\ pc = "loop"
    /\ connected' = FALSE
    /\ connackPending' = FALSE
    /\ \E exc \in {"OSError", "ValueError"} : MainRaise(exc)
    /\ UNCHANGED <<startupVars, connackRc, subscribed, nConnOK, nSubs, discRc,
                   reconnectOK, lastCall, interruptedAt, disconnectCalled, msgVars>>

\* line 227: loop_forever returns
LoopReturns ==
    /\ pc = "loop"
    /\ pc' = "connect"
    /\ UNCHANGED <<startupVars, linkVars, lastCall, interruptedAt,
                   disconnectCalled, exitCause, msgVars>>

\* line 227: loop_forever, with the link down, connects again by itself
LoopReconnects ==
    /\ pc = "loop"
    /\ ~connected
    /\ ~connackPending
    /\ connackPending' = TRUE
    /\ UNCHANGED <<pc, startupVars, connected, connackRc, subscribed, nConnOK,
                   nSubs, discRc, reconnectOK, lastCall, interruptedAt,
                   disconnectCalled, exitCause, msgVars>>

\* lines 27-36: on_connect, which loop_forever calls when it reads the CONNACK
on_connect(reason_code) ==
    /\ pc = "loop"
    /\ connackPending
    /\ nConnOK < MaxConnAcks
    /\ connackPending' = FALSE
    /\ connackRc' = reason_code
    /\ connected' = (reason_code = 0)
    /\ nConnOK' = IF reason_code = 0 THEN nConnOK + 1 ELSE nConnOK
    /\ IF ShouldSubscribe(reason_code)
       THEN /\ subscribed' = [i \in 1..Len(MQTT_TOPICS) |->
                                 [topic |-> MQTT_TOPICS[i], qos |-> SubscribeQos]]
            /\ nSubs' = nSubs + Len(MQTT_TOPICS)
            /\ lastCall' = "subscribe"
       ELSE /\ subscribed' = <<>>
            /\ UNCHANGED <<nSubs, lastCall>>
    /\ UNCHANGED <<pc, startupVars, discRc, reconnectOK, interruptedAt,
                   disconnectCalled, exitCause, msgVars>>

\* lines 38-41: on_disconnect, which loop_forever calls when the link drops
on_disconnect(reason_code) ==
    /\ pc = "loop"
    /\ connected
    /\ connected' = FALSE
    /\ discRc' = reason_code
    /\ reconnectOK' = FALSE
    /\ pc' = IF ShouldReconnect(reason_code) THEN "rc_check" ELSE "loop"
    /\ UNCHANGED <<startupVars, connackPending, connackRc, subscribed, nConnOK,
                   nSubs, lastCall, interruptedAt, disconnectCalled, exitCause,
                   msgVars>>

\* line 42: while not client.is_connected()
ReconnectCheck ==
    /\ pc = "rc_check"
    /\ pc' = IF connected THEN "loop" ELSE "rc_reconnect"
    /\ UNCHANGED <<startupVars, linkVars, lastCall, interruptedAt,
                   disconnectCalled, exitCause, msgVars>>

\* lines 43-48: client.reconnect() returns once CONNECT is queued, or raises.
\* The CONNACK is read by loop_forever, which is the caller of on_disconnect:
\* is_connected() does not change while on_disconnect runs.
Reconnect ==
    /\ pc = "rc_reconnect"
    /\ lastCall' = "reconnect"
    /\ \E outcome \in {"ok", "OSError", "ValueError"} :
          IF outcome = "ok"
          THEN /\ reconnectOK' = TRUE
               /\ connackPending' = TRUE
               /\ pc' = "rc_sleep2"
               /\ UNCHANGED exitCause
          ELSE /\ connackPending' = FALSE
               /\ UNCHANGED reconnectOK
               /\ IF ReconnectCatches(outcome)
                  THEN pc' = "rc_sleep5" /\ UNCHANGED exitCause
                  ELSE MainRaise(outcome)
    /\ UNCHANGED <<startupVars, connected, connackRc, subscribed, nConnOK, nSubs,
                   discRc, interruptedAt, disconnectCalled, msgVars>>

\* line 46: time.sleep(2)
ReconnectSleep ==
    /\ pc = "rc_sleep2"
    /\ pc' = "rc_check"
    /\ UNCHANGED <<startupVars, linkVars, lastCall, interruptedAt,
                   disconnectCalled, exitCause, msgVars>>

\* line 49: time.sleep(5)
FailureSleep ==
    /\ pc = "rc_sleep5"
    /\ pc' = "rc_check"
    /\ UNCHANGED <<startupVars, linkVars, lastCall, interruptedAt,
                   disconnectCalled, exitCause, msgVars>>

-----------------------------------------------------------------------------
(* on_message *)

\* lines 181-183: an exception reaches the handler of on_message; one that it
\* does not catch leaves the callback and then loop_forever
HandlerRaise(call, exc) ==
    IF OuterCatches(exc)
    THEN /\ om' = [call EXCEPT !.stage = "returned", !.dropped = exc]
         /\ pc' = "loop"
         /\ UNCHANGED exitCause
    ELSE /\ om' = [call EXCEPT !.stage = "escaped"]
         /\ MainRaise(exc)

\* lines 97-139 and 145-172: loop_forever hands the next message to on_message,
\* which runs up to its first await
on_message(message) ==
    /\ pc = "loop"
    /\ connected
    /\ msgNo < MaxMsgs
    /\ msgNo' = msgNo + 1
    /\ LET r == Prepare(message)
           call == [NoCall EXCEPT !.n = msgNo + 1, !.msg = message,
                                  !.ip = r.ip, !.prev = Ending(om)]
       IN  /\ message_text' =
                 IF r.bound
                 THEN [bound |-> TRUE, text |-> r.text, from |-> msgNo + 1]
                 ELSE EntryText(message_text)
           /\ CASE r.kind = "raise" -> HandlerRaise(call, r.exc)
                [] r.kind = "lookup" ->
                      /\ om' = [call EXCEPT !.stage = "lookup"]
                      /\ pc' = RunUntilComplete("om_lookup")
                      /\ UNCHANGED exitCause
                [] r.kind = "send" ->
                      /\ om' = [call EXCEPT !.stage = "send"]
                      /\ pc' = RunUntilComplete("om_send")
                      /\ UNCHANGED exitCause
    /\ UNCHANGED <<startupVars, linkVars, lastCall, interruptedAt, disconnectCalled>>

\* lines 140-144: run process_ip_info to its end
EnrichmentLookup ==
    /\ pc = "om_lookup"
    /\ \E response \in LookupResponses :
          LET r == GetIpInfo(response)
              call == [om EXCEPT !.lookups = om.lookups + 1,
                                 !.response = response,
                                 !.openLoops = om.openLoops
                                                  + LoopsLeftByLookup(r.raised)]
          IN  IF r.raised
              THEN HandlerRaise(call, r.exc) /\ UNCHANGED message_text
              ELSE /\ message_text' = [bound |-> TRUE,
                                       text |-> ProcessIpInfo(om.ip, r.info),
                                       from |-> om.n]
                   /\ om' = [call EXCEPT !.stage = "send"]
                   /\ pc' = RunUntilComplete("om_send")
                   /\ UNCHANGED exitCause
    /\ UNCHANGED <<startupVars, linkVars, lastCall, interruptedAt, disconnectCalled,
                   msgNo>>

\* lines 174-180 and 66-95: send_telegram_message(message_text), run to its end
Deliver ==
    /\ pc = "om_send"
    /\ IF ~message_text.bound
       THEN HandlerRaise(om, "UnboundLocalError")
       ELSE \E outcome \in {"ok", "TelegramError", "OSError"} :
               LET call == [om EXCEPT !.attempts = om.attempts + 1,
                                      !.sent = message_text.text,
                                      !.sentFrom = message_text.from,
                                      !.sendExc = IF outcome = "ok" THEN ""
                                                  ELSE outcome,
                                      !.openLoops = om.openLoops
                                                       + LoopsLeftBySend(outcome)]
               IN  IF outcome = "ok" \/ SendCatches(outcome)
                   THEN /\ om' = [call EXCEPT !.stage = "returned",
                                              !.sendCaught = (outcome # "ok")]
                        /\ pc' = "loop"
                        /\ UNCHANGED exitCause
                   ELSE HandlerRaise(call, outcome)
    /\ UNCHANGED <<startupVars, linkVars, lastCall, interruptedAt, disconnectCalled,
                   msgNo, message_text>>

-----------------------------------------------------------------------------
(* The interrupt signal *)

Running == pc \notin {"kbint", "done", "fatal", "crashed"}

\* KeyboardInterrupt is raised at the position of the thread.  It is no
\* Exception: only line 228 catches it, and only inside the try of line 223.
Interrupt ==
    /\ Running
    /\ interruptedAt = ""
    /\ interruptedAt' = pc
    /\ IF InTryBlock(pc)
       THEN pc' = "kbint" /\ UNCHANGED exitCause
       ELSE pc' = "crashed" /\ exitCause' = "KeyboardInterrupt"
    /\ UNCHANGED <<startupVars, linkVars, lastCall, disconnectCalled, msgVars>>

\* lines 229-231: log, client.disconnect(), break
Shutdown ==
    /\ pc = "kbint"
    /\ lastCall' = "disconnect"
    /\ disconnectCalled' = TRUE
    /\ connected' = FALSE
    /\ pc' = AfterShutdown
    /\ UNCHANGED <<startupVars, connackPending, connackRc, subscribed, nConnOK,
                   nSubs, discRc, reconnectOK, interruptedAt, exitCause, msgVars>>

-----------------------------------------------------------------------------

ReasonCodes == {0, 128, 135}

Next ==
    \/ GetMe
    \/ StartupSend
    \/ CreateClient
    \/ Setup
    \/ Connect
    \/ RetrySleep
    \/ LoopRaises
    \/ LoopReturns
    \/ LoopReconnects
    \/ \E reason_code \in ReasonCodes : on_connect(reason_code)
    \/ \E reason_code \in ReasonCodes : on_disconnect(reason_code)
    \/ ReconnectCheck
    \/ Reconnect
    \/ ReconnectSleep
    \/ FailureSleep
    \/ \E message \in Messages : on_message(message)
    \/ EnrichmentLookup
    \/ Deliver
    \/ Interrupt
    \/ Shutdown

Spec == Init /\ [][Next]_vars

\* the steps of the thread itself: a call returns, a sleep ends
ThreadStep ==
    \/ GetMe \/ StartupSend \/ CreateClient \/ Setup \/ Connect \/ RetrySleep
    \/ ReconnectCheck \/ Reconnect \/ ReconnectSleep \/ FailureSleep
    \/ EnrichmentLookup \/ Deliver \/ Shutdown

LiveSpec == Init /\ [][Next]_vars /\ WF_vars(ThreadStep)

-----------------------------------------------------------------------------
(* Properties *)

ReconnectLoop == {"rc_check", "rc_reconnect", "rc_sleep2", "rc_sleep5"}
InHandler == {"om_lookup", "om_send"}
Exited == {"done", "fatal", "crashed"}

\* C1: whatever exception a stage of on_message raises (decoding, parsing,
\* classifying, formatting, the lookup, the delivery), it is caught inside
\* on_message: a step of on_message that is not cut by the interrupt signal
\* leaves the thread in the handler or back in loop_forever, never in the
\* exception handlers of the process loop.
C1_ExceptionsCaught ==
    [][ ((om'.n # om.n \/ pc \in InHandler) /\ interruptedAt' = "")
            => (pc' \in InHandler \cup {"loop"} /\ om'.stage # "escaped") ]_vars

\* C1 witness: a message was dropped on an exception and the next message
\* was delivered.
C1_Witness ==
    /\ om.n = 2
    /\ om.prev = "dropped"
    /\ om.stage = "returned"
    /\ om.attempts = 1
    /\ om.sendExc = ""
    /\ pc = "loop"

\* C2: a call of on_message makes at most one delivery attempt; a call that
\* returned made exactly one unless it dropped the message on an exception;
\* the text it sends was built by this call, from this message.
C2_OneDelivery ==
    /\ om.attempts <= 1
    /\ (om.stage = "returned" /\ om.dropped = "" => om.attempts = 1)
    /\ (om.stage = "returned" /\ om.attempts = 0 => om.dropped # "")
    /\ (om.attempts = 1 => om.sentFrom = om.n)

\* C2 witness: the second message was delivered after the first was.
C2_Witness ==
    /\ om.n = 2
    /\ om.prev = "delivered"
    /\ om.stage = "returned"
    /\ om.attempts = 1
    /\ om.sentFrom = 2

\* C3 (as claimed): for every topic and every payload that fails structured
\* decoding, bytes that are not text included, on_message attempts delivery
\* of exactly "Topic: <topic>\nMessage: <raw text>".
C3_Claim ==
    (om.stage = "returned" /\ (~om.msg.payload.utf8 \/ ~om.msg.payload.json))
        => /\ om.attempts = 1
           /\ om.sent = "Topic: " \o om.msg.topic \o "\nMessage: "
                            \o om.msg.payload.text

\* C4: a delivery that raises is caught in send_telegram_message; the call of
\* on_message returns after that one attempt with nothing left for the handler
\* of line 181; the message after a failed delivery gets its own attempt.
C4_SendFailureDropped ==
    /\ (om.sendExc # ""
            => /\ om.sendCaught
               /\ om.attempts = 1
               /\ om.stage = "returned"
               /\ om.dropped = "")
    /\ (om.prev = "send_failed" /\ om.stage = "returned" /\ om.dropped = ""
            => om.attempts = 1 /\ om.sentFrom = om.n)

\* C4 witness: the delivery of the first message failed and the second
\* message was delivered.
C4_Witness ==
    /\ om.n = 2
    /\ om.prev = "send_failed"
    /\ om.stage = "returned"
    /\ om.attempts = 1
    /\ om.sendExc = ""

\* C5: the broker client exists, and a call was made on it, only after get_me
\* and the startup announcement both succeeded; when either failed the process
\* has ended without a client.
C5_StartupOrder ==
    /\ (clientCreated \/ lastCall # "none" \/ pc \in {"setup", "connect", "loop"})
            => (getMeOK /\ startupSent)
    /\ (~(getMeOK /\ startupSent)
            => pc \in {"verify_getme", "verify_send", "fatal", "crashed"})

\* C5 witness: get_me succeeded, the announcement failed, the process ended
\* without a client.
C5_Witness ==
    /\ pc = "fatal"
    /\ getMeOK
    /\ ~startupSent
    /\ ~clientCreated
    /\ lastCall = "none"

\* C6 (as claimed): once a reconnect of on_disconnect has succeeded, the
\* link reaches Connected and the reconnect loop ends (or the process is
\* asked to stop).
C6_Claim ==
    (pc \in ReconnectLoop /\ reconnectOK)
        ~> ((connected /\ pc = "loop") \/ interruptedAt # "")

\* C7: every on_connect with reason code 0 issues one subscribe at QoS 1 per
\* configured topic filter, every other on_connect none, and there is no
\* subscribe besides.
C7_SubscribePerConnect ==
    /\ nSubs = nConnOK * Len(MQTT_TOPICS)
    /\ (connackRc = 0
            => /\ Len(subscribed) = Len(MQTT_TOPICS)
               /\ \A i \in 1..Len(MQTT_TOPICS) :
                     Cardinality({j \in 1..Len(subscribed) :
                                     subscribed[j].topic = MQTT_TOPICS[i]}) = 1
               /\ \A j \in 1..Len(subscribed) : subscribed[j].qos = 1)
    /\ (connackRc # 0 => subscribed = <<>>)

\* C7 witness: the second successful connect has subscribed.
C7_Witness ==
    /\ nConnOK = 2
    /\ connackRc = 0
    /\ nSubs = 2 * Len(MQTT_TOPICS)
    /\ lastCall = "subscribe"

\* C8: an exception of client.connect or of loop_forever takes the process
\* loop to its delay and from there to client.connect again; once the client
\* exists the process ends only after an interrupt signal.
C8_ConnectionErrorsRetried ==
    [][ /\ (clientCreated' /\ pc' \in Exited => interruptedAt' # "")
        /\ (pc = "retry_sleep" /\ interruptedAt' = "" => pc' = "connect")
        /\ (pc = "connect" /\ interruptedAt' = ""
                => pc' \in {"loop", "retry_sleep"}) ]_vars

\* C8 witness: loop_forever raised after a successful connect and the
\* process loop waits to connect again.
C8_Witness ==
    /\ pc = "retry_sleep"
    /\ nConnOK >= 1
    /\ lastCall = "subscribe"

\* C9 (as claimed): when the interrupt signal arrives while the process
\* connects, is in loop_forever or a callback, or waits in the delay of the
\* process loop, client.disconnect() is called and the process ends by the
\* break of line 231.
C9_Claim ==
    (interruptedAt \in {"connect", "loop", "retry_sleep"} \cup InHandler
                           \cup ReconnectLoop)
        => /\ pc \in {"kbint", "done"}
           /\ (pc = "done" => disconnectCalled)

\* C10: on_disconnect with reason code 0 never enters the reconnect loop, and
\* once client.disconnect() was called the process has ended: disconnect is
\* the last call made on the client.
C10_GracefulIsTerminal ==
    /\ (pc \in ReconnectLoop => discRc # 0)
    /\ (lastCall = "reconnect" => discRc # 0)
    /\ (disconnectCalled => pc = "done" /\ lastCall = "disconnect")

\* C10 witness: a graceful disconnect was reported, no reconnect followed,
\* and the process was shut down.
C10_Witness ==
    /\ discRc = 0
    /\ disconnectCalled
    /\ pc = "done"

\* what the properties below say about a message
IsDictMessage(m) == m.payload.utf8 /\ m.payload.json /\ m.payload.val.t = "dict"
FieldOf(m, key) == DictGet(m.payload.val, key, JNone)
IsClientConnected(m) ==
    /\ m.topic = ClientTopic
    /\ IsDictMessage(m)
    /\ FieldOf(m, "mode") = JStr("CLIENT")
    /\ FieldOf(m, "state") = JStr("Connected")
IpIsText(m) == FieldOf(m, "ip") = JNone \/ FieldOf(m, "ip").t = "str"
RawIpOf(m) == IF FieldOf(m, "ip") = JNone THEN "" ELSE FieldOf(m, "ip").s

\* C11: a call of on_message begins only when the call before it has
\* returned, calls are numbered in the broker's order, and a lookup or a
\* delivery attempt is made by the call of the latest message handed over,
\* while the thread is at that await.
C11_Sequential ==
    [][ /\ (om'.n # om.n
                => /\ om.stage \in {"none", "returned"}
                   /\ om'.n = om.n + 1
                   /\ om'.n = msgNo')
        /\ (om'.n = om.n /\ om'.attempts # om.attempts
                => pc = "om_send" /\ om.n = msgNo /\ om'.sentFrom = om.n)
        /\ (om'.n = om.n /\ om'.lookups # om.lookups
                => pc = "om_lookup" /\ om.n = msgNo) ]_vars

\* C11 witness: the second call has made its lookup and is at its delivery,
\* after the first call has delivered.
C11_Witness ==
    /\ om.n = 2
    /\ om.prev = "delivered"
    /\ om.stage = "send"
    /\ pc = "om_send"
    /\ om.lookups = 1

LookupFailed(response) ==
    \/ response.kind = "raise"
    \/ response.kind = "json"
         /\ (\/ response.data.t # "dict"
             \/ DictGet(response.data, "status", JNone) # JStr("success"))

\* C12: when the lookup fails (network error, status other than success,
\* malformed response) no exception leaves get_ip_info: the call goes on to
\* its delivery, is not dropped, and the text it attempts to deliver is the
\* Connected header, the IP line and the line that says no more is known.
C12_LookupFailureFallsBack ==
    (om.lookups = 1 /\ LookupFailed(om.response))
        => /\ om.stage \in {"send", "returned"}
           /\ om.dropped = ""
           /\ message_text.bound
           /\ (om.stage = "returned" => om.attempts = 1)
           /\ (om.attempts = 1
                  => om.sent = "[bust] Cliente Conectado\n[globe] IP: " \o om.ip
                        \o "\nNo se pudo obtener información adicional de la IP")

\* C12 witness: the lookup raised a network error and the fallback text was
\* delivered.
C12_Witness ==
    /\ om.response = GeoRaises("ClientError")
    /\ om.stage = "returned"
    /\ om.attempts = 1
    /\ om.sendExc = ""
    /\ om.sent = "[bust] Cliente Conectado\n[globe] IP: 10.0.0.5\n"
                    \o "No se pudo obtener información adicional de la IP"

RECURSIVE SplitLines(_)
SplitLines(s) ==
    LET breaks == {i \in 1..Len(s) : Char(s, i) = "\n"}
    IN  IF breaks = {} THEN <<s>>
        ELSE LET first == CHOOSE i \in breaks : \A j \in breaks : i <= j
             IN  <<SubSeq(s, 1, first - 1)>>
                     \o SplitLines(SubSeq(s, first + 1, Len(s)))

\* the ip the output is to show for a raw ip: with "::ffff:" somewhere in
\* it, its longest tail without a colon; else all of it
ShownIp(raw) ==
    IF \E i \in 1..(Len(raw) - 6) : SubSeq(raw, i, i + 6) = "::ffff:"
    THEN LET k == CHOOSE k \in 1..Len(raw) :
                      /\ Char(raw, k) = ":"
                      /\ \A j \in (k + 1)..Len(raw) : Char(raw, j) # ":"
         IN  SubSeq(raw, k + 1, Len(raw))
    ELSE raw

\* C14: for a message on the client topic with mode CLIENT the IP line of
\* the delivered text, Connected or Disconnected, shows the normalized ip of
\* this message: what follows the last colon when the raw ip contains
\* "::ffff:", the raw ip otherwise; the text was built by this call.
C14_NormalizedIp ==
    (/\ om.msg.topic = ClientTopic
     /\ IsDictMessage(om.msg)
     /\ FieldOf(om.msg, "mode") = JStr("CLIENT")
     /\ IpIsText(om.msg)
     /\ om.attempts = 1)
        => /\ om.sentFrom = om.n
           /\ (FieldOf(om.msg, "state") = JStr("Connected")
                  => LET head == "[bust] Cliente Conectado\n[globe] IP: "
                                     \o ShownIp(RawIpOf(om.msg)) \o "\n"
                     IN  /\ Len(om.sent) > Len(head)
                         /\ SubSeq(om.sent, 1, Len(head)) = head)
           /\ (FieldOf(om.msg, "state") = JStr("Disconnected")
                  => om.sent = "[bust] Cliente Desconectado\n[globe] IP: "
                                   \o ShownIp(RawIpOf(om.msg)))

\* C14 witness: a Disconnected message with ip ::ffff:10.0.0.5 was delivered
\* after a delivered message.
C14_Witness ==
    /\ om.n = 2
    /\ om.prev = "delivered"
    /\ om.msg = [topic |-> ClientTopic,
                 payload |-> ClientPayload("CLIENT", "Disconnected",
                                           "::ffff:10.0.0.5")]
    /\ om.attempts = 1
    /\ om.sent = "[bust] Cliente Desconectado\n[globe] IP: 10.0.0.5"

\* r is hz / 1,000,000 written with exactly six decimals
IsMHzText(r, hz) ==
    /\ Len(r) >= 8
    /\ Char(r, Len(r) - 6) = "."
    /\ LET whole == SubSeq(r, 1, Len(r) - 7)
           fraction == SubSeq(r, Len(r) - 5, Len(r))
       IN  /\ IsNumericText(whole)
           /\ IsNumericText(fraction)
           /\ (Len(whole) > 1 => Char(whole, 1) # "0")
           /\ TextToNat(whole) * 1000000 + TextToNat(fraction) = hz

HzOf(v) == IF v.t = "int" THEN v.n ELSE TextToNat(v.s)

\* C15: the text delivered for a dict on the telemetry topic has one line
\* per key, in the order of the keys, each "key: value", the line of freq
\* being "freq: <value / 1,000,000 with six decimals> MHz".
C15_TelemetryLines ==
    (om.msg.topic = TelemetryTopic /\ IsDictMessage(om.msg) /\ om.attempts = 1)
        => LET lines == SplitLines(om.sent)
               items == om.msg.payload.val.items
           IN  /\ Len(lines) = Len(items)
               /\ \A i \in 1..Len(items) :
                     IF items[i].k = "freq"
                     THEN /\ Len(lines[i]) > 10
                          /\ SubSeq(lines[i], 1, 6) = "freq: "
                          /\ SubSeq(lines[i], Len(lines[i]) - 3, Len(lines[i]))
                                 = " MHz"
                          /\ IsMHzText(SubSeq(lines[i], 7, Len(lines[i]) - 4),
                                       HzOf(items[i].v))
                     ELSE lines[i] = items[i].k \o ": "
                              \o (IF items[i].v.t = "int"
                                  THEN ToString(items[i].v.n) ELSE items[i].v.s)

\* C15 witness: freq 145000000 and mode FM were delivered.
C15_Witness ==
    /\ om.msg.topic = TelemetryTopic
    /\ om.stage = "returned"
    /\ om.attempts = 1
    /\ om.sendExc = ""
    /\ om.sent = "freq: 145.000000 MHz\nmode: FM"

GeoField(response, key) ==
    LET v == DictGet(response.data, key, JNone)
    IN  IF v = JNone THEN "N/A" ELSE v.s

\* C16: when the lookup succeeds the text delivered is the Connected header,
\* the IP line, the country line, the city line and the ISP line, in this
\* order; the text of line 117, without these lines, is not delivered.
C16_EnrichedText ==
    (om.lookups = 1 /\ om.response.kind = "json" /\ ~LookupFailed(om.response))
        => /\ om.stage \in {"send", "returned"}
           /\ (om.stage = "returned" => om.attempts = 1)
           /\ (om.attempts = 1
                  => /\ om.sent =
                           "[bust] Cliente Conectado\n"
                             \o "[globe] IP: " \o ShownIp(RawIpOf(om.msg)) \o "\n"
                             \o "[flag] País: " \o GeoField(om.response, "country") \o "\n"
                             \o "[office] Ciudad: " \o GeoField(om.response, "city") \o "\n"
                             \o "[dish] ISP: " \o GeoField(om.response, "isp")
                     /\ om.sent # "[bust] Cliente Conectado\n[globe] IP: "
                                      \o ShownIp(RawIpOf(om.msg)))

\* C16 witness: the lookup of 192.0.2.1 succeeded and the five lines were
\* delivered.
C16_Witness ==
    /\ om.stage = "returned"
    /\ om.attempts = 1
    /\ om.sendExc = ""
    /\ om.sent = "[bust] Cliente Conectado\n[globe] IP: 192.0.2.1\n"
                    \o "[flag] País: Testland\n[office] Ciudad: Test City\n"
                    \o "[dish] ISP: TestISP"

\* C17: a dict on the client topic whose mode is not "CLIENT", whatever its
\* state, is delivered as "Topic: <topic>\nMessage: <raw text>", without a
\* lookup; the per-key lines are not used on this topic.
C17_OtherModeIsRaw ==
    (/\ om.msg.topic = ClientTopic
     /\ IsDictMessage(om.msg)
     /\ FieldOf(om.msg, "mode") # JStr("CLIENT"))
        => /\ om.stage \in {"send", "returned"}
           /\ om.dropped = ""
           /\ om.lookups = 0
           /\ (om.stage = "returned" => om.attempts = 1)
           /\ (om.attempts = 1
                  => om.sent = "Topic: OpenwebRX/CLIENT\nMessage: "
                                   \o om.msg.payload.text)

\* C17 witness: mode RX with state Disconnected was delivered in the raw form.
C17_Witness ==
    /\ om.msg = [topic |-> ClientTopic,
                 payload |-> ClientPayload("RX", "Disconnected", "192.0.2.1")]
    /\ om.stage = "returned"
    /\ om.attempts = 1
    /\ om.sent = "Topic: OpenwebRX/CLIENT\nMessage: "
                    \o "{\"mode\": \"RX\", \"state\": \"Disconnected\", "
                    \o "\"ip\": \"192.0.2.1\"}"

\* C18 (as claimed): every event loop a call of on_message created is closed
\* when the call has returned, after a failed delivery too.
C18_Claim == om.stage = "returned" => om.openLoops = 0

NotNumeric(v) == ~(v.t = "int" \/ (v.t = "str" /\ IsNumericText(v.s)))

\* the messages with a valid JSON payload for which no text is produced
IsDropCase(m) ==
    /\ m.payload.utf8
    /\ m.payload.json
    /\ \/ /\ m.topic = ClientTopic
          /\ IsDictMessage(m)
          /\ FieldOf(m, "mode") = JStr("CLIENT")
          /\ FieldOf(m, "state") \notin {JStr("Connected"), JStr("Disconnected")}
       \/ /\ m.topic \in {ClientTopic, TelemetryTopic}
          /\ m.payload.val.t # "dict"
       \/ /\ m.topic = TelemetryTopic
          /\ IsDictMessage(m)
          /\ \E i \in 1..Len(m.payload.val.items) :
                /\ m.payload.val.items[i].k = "freq"
                /\ NotNumeric(m.payload.val.items[i].v)

\* C19: a message with valid JSON for which no text is produced (mode CLIENT
\* with a state that is neither Connected nor Disconnected; JSON that is no
\* dict on the client or the telemetry topic; a freq that is no number) gets
\* no lookup and no delivery attempt, and its call returns through the
\* handler of line 181.
C19_DroppedWithoutDelivery ==
    (om.n > 0 /\ IsDropCase(om.msg))
        => /\ om.lookups = 0
           /\ om.attempts = 0
           /\ om.stage \in {"send", "returned"}
           /\ (om.stage = "returned" => om.dropped # "")

\* C19 witness: mode CLIENT with state Idle was dropped on the unbound
\* message_text.
C19_Witness ==
    /\ om.msg = [topic |-> ClientTopic,
                 payload |-> ClientPayload("CLIENT", "Idle", "192.0.2.1")]
    /\ om.stage = "returned"
    /\ om.dropped = "UnboundLocalError"
    /\ om.attempts = 0
    /\ pc = "loop"

====
